---------------------------- MODULE Spec2Model ----------------------------
(***************************************************************************)
(* Model of the flight data provider of src/aviation.py:                   *)
(* FlightDataProvider (get_city_airports, search_flights,                  *)
(* get_flight_price_estimate), the st.cache_data(ttl=3600) memoisation in  *)
(* front of the first two, the session counter st.session_state.api_calls  *)
(* and the search handler of main().                                       *)
(***************************************************************************)
EXTENDS Integers, Sequences, FiniteSets, TLC

\* ------------------------------------------------------------------------
\* Program constants
\* ------------------------------------------------------------------------

\* `if st.session_state.api_calls >= 95` (lines 122 and 161)
QuotaCeiling == 95

\* `@st.cache_data(ttl=3600)` (lines 116 and 153), in seconds
CacheTtl == 3600

\* `response.status_code == 200` (lines 138 and 179)
HttpOk == 200

\* ------------------------------------------------------------------------
\* Bounds of the model
\* ------------------------------------------------------------------------

\* The session has QuotaCeiling - Headroom requests on its counter when the
\* provider is constructed (session state survives the reruns of the script).
Headroom == 3

\* Number of threads calling into the provider.
NumCallers == 2

\* The clock advances in steps of TickStep seconds up to MaxClock.
TickStep == 1800
MaxClock == 3600

Callers == 1 .. NumCallers

\* ------------------------------------------------------------------------
\* datetime: a day number and a time of day
\* ------------------------------------------------------------------------

\* datetime.replace(hour=h, minute=m): second and microsecond are kept
Replace(dt, h, m) == [dt EXCEPT !.hour = h, !.minute = m]

\* The addition of hours without the carry into the day.
AddHours_NoCarry(dt, h) == [dt EXCEPT !.hour = (dt.hour + h) % 24]

\* dt + timedelta(hours=h)
AddHours(dt, h) ==
    [dt EXCEPT !.day = dt.day + ((dt.hour + h) \div 24),
               !.hour = (dt.hour + h) % 24]

\* strftime("%Y-%m-%dT%H:%M:%SZ"): the microsecond is not printed
Strftime(dt) == <<dt.day, dt.hour, dt.minute, dt.second>>

\* A reference datetime.now() for the construction of the provider.
RefNow == [day |-> 0, hour |-> 14, minute |-> 28, second |-> 37, micro |-> 5]


\* ------------------------------------------------------------------------
\* State
\* ------------------------------------------------------------------------

VARIABLES
    api_calls,      \* st.session_state.api_calls
    use_mock,       \* FlightDataProvider.use_mock
    current_date,   \* datetime.now() read by _init_mock_data
    cache,          \* the entries of st.cache_data, by key
    now,            \* the clock, in seconds
    pc,             \* pc[c]: where caller c is in its call
    call,           \* call[c]: the method caller c runs, and its arguments
    tmp,            \* tmp[c]: api_calls as read by `api_calls += 1`
    resp,           \* resp[c]: what the remote end answered to caller c
    result,         \* result[c]: the value returned to caller c
    warned,         \* warned[c]: the call showed st.warning (lines 150, 183, 214)
    pre,            \* pre[c]: api_calls, use_mock, cache hit and time at entry
    attempts,       \* attempts[c]: the requests the call of caller c has sent
    requests,       \* the requests to /v1/airports and /v1/flights so far
    stage,          \* where main() is in its search handler
    form,           \* the cities the form of main() was submitted with
    found,          \* departure_airports, arrival_airports, flights of main()
    estimate        \* price_estimate of main()

provider_vars == <<api_calls, use_mock, current_date, cache, now, requests>>
caller_vars == <<pc, call, tmp, resp, result, warned, pre, attempts>>
main_vars == <<stage, form, found, estimate>>
vars == <<api_calls, use_mock, current_date, cache, now, requests,
          pc, call, tmp, resp, result, warned, pre, attempts,
          stage, form, found, estimate>>

\* ------------------------------------------------------------------------
\* _init_mock_data: the fallback tables
\* ------------------------------------------------------------------------

mock_airports ==
    [c \in {"New York", "London", "Tokyo", "Dubai", "Singapore"} |->
        CASE c = "New York" ->
                << [iata |-> "JFK", name |-> "John F. Kennedy International"],
                   [iata |-> "LGA", name |-> "LaGuardia Airport"] >>
          [] c = "London" ->
                << [iata |-> "LHR", name |-> "Heathrow Airport"],
                   [iata |-> "LGW", name |-> "Gatwick Airport"] >>
          [] c = "Tokyo" ->
                << [iata |-> "HND", name |-> "Haneda Airport"],
                   [iata |-> "NRT", name |-> "Narita International"] >>
          [] c = "Dubai" ->
                << [iata |-> "DXB", name |-> "Dubai International"] >>
          [] c = "Singapore" ->
                << [iata |-> "SIN", name |-> "Changi Airport"] >>]

route_pairs ==
    << <<"JFK", "LHR">>, <<"LHR", "HND">>, <<"HND", "DXB">>, <<"DXB", "SIN">> >>

\* The list of airlines one entry short.
airlines_Three ==
    << <<"BA", "British Airways">>, <<"AA", "American Airlines">>,
       <<"EK", "Emirates">> >>

airlines ==
    << <<"BA", "British Airways">>, <<"AA", "American Airlines">>,
       <<"EK", "Emirates">>, <<"SQ", "Singapore Airlines">> >>

\* One flight record of the table; f"{airline_code}{n}" is kept as its two
\* parts.
MockFlight(code, n, airline_name, dep_time, arr_time) ==
    [flight |-> [number |-> <<code, n>>],
     airline |-> [name |-> airline_name],
     departure |-> [scheduled |-> Strftime(dep_time)],
     arrival |-> [scheduled |-> Strftime(arr_time)],
     flight_status |-> "scheduled"]

\* The body of `for airline_code, airline_name in airlines`: the morning and
\* the evening flight are appended to flights.
RECURSIVE MockFlights(_, _)
MockFlights(i, flights) ==
    IF i > Len(airlines) THEN flights
    ELSE LET code == airlines[i][1]
             airline_name == airlines[i][2]
             dep_am == Replace(current_date, 8, 0)
             am == Append(flights,
                          MockFlight(code, 100 + Len(flights), airline_name,
                                     dep_am, AddHours(dep_am, 8)))
             dep_pm == Replace(current_date, 18, 0)
             pm == Append(am,
                          MockFlight(code, 200 + Len(am), airline_name,
                                     dep_pm, AddHours(dep_pm, 8)))
         IN MockFlights(i + 1, pm)

mock_routes ==
    [r \in {route_pairs[i] : i \in 1 .. Len(route_pairs)} |->
        MockFlights(1, <<>>)]

mock_prices ==
    [r \in {<<"New York", "London">>, <<"London", "Tokyo">>,
            <<"Tokyo", "Dubai">>, <<"Dubai", "Singapore">>} |->
        CASE r = <<"New York", "London">> ->
                [min_price |-> 450, max_price |-> 800, currency |-> "USD"]
          [] r = <<"London", "Tokyo">> ->
                [min_price |-> 700, max_price |-> 1200, currency |-> "USD"]
          [] r = <<"Tokyo", "Dubai">> ->
                [min_price |-> 600, max_price |-> 900, currency |-> "USD"]
          [] r = <<"Dubai", "Singapore">> ->
                [min_price |-> 400, max_price |-> 700, currency |-> "USD"]]

\* The default of `self.mock_prices.get(route_key, {...})`
DefaultPrice == [min_price |-> 500, max_price |-> 1000, currency |-> "USD"]

\* The lookup answering with the records of the remote end.
MockAirportsGet_Remote(city) ==
    << [iata |-> "XXX", name |-> city] >>

\* self.mock_airports.get(city, [])
MockAirportsGet(city) ==
    IF city \in DOMAIN mock_airports THEN mock_airports[city] ELSE <<>>

\* self.mock_routes.get((departure_city, arrival_city), [])
MockRoutesGet(dep, arr) ==
    IF <<dep, arr>> \in DOMAIN mock_routes THEN mock_routes[<<dep, arr>>]
    ELSE <<>>

\* self.mock_prices.get((departure_city, arrival_city), {...})
MockPricesGet(dep, arr) ==
    IF <<dep, arr>> \in DOMAIN mock_prices THEN mock_prices[<<dep, arr>>]
    ELSE DefaultPrice


\* ------------------------------------------------------------------------
\* The remote ends: what requests.get and the chat completion may answer
\* ------------------------------------------------------------------------

\* An answer: the call raised (connection error, timeout, API error), or it
\* returned `status` with a body that parses as JSON or does not.
Reply(raises, status, parsable, body) ==
    [raises |-> raises, status |-> status, parsable |-> parsable, body |-> body]

NoBody == [none |-> TRUE]
NoReply == Reply(FALSE, 0, FALSE, NoBody)
Raised == Reply(TRUE, 0, FALSE, NoBody)
ErrorBody == [error |-> [info |-> "usage limit reached"]]

\* /v1/airports: the raw records of a city; one record has no IATA code.
RemoteAirportData(city) ==
    CASE city = "Dubai" ->
            << [iata_code |-> "DXB", airport_name |-> "Dubai International Airport"],
               [iata_code |-> "", airport_name |-> "Dubai Creek SPB"] >>
      [] city = "Singapore" ->
            << [iata_code |-> "SIN", airport_name |-> "Singapore Changi"] >>
      [] city = "Paris" ->
            << [iata_code |-> "CDG", airport_name |-> "Charles De Gaulle"] >>
      [] OTHER -> <<>>

AirportReplies(city) ==
    { Reply(FALSE, 200, TRUE, [data |-> RemoteAirportData(city)]),
      Reply(FALSE, 200, TRUE, [data |-> << [iata_code |-> "XXX"] >>]),
      Reply(FALSE, 200, TRUE, ErrorBody),
      Reply(FALSE, 200, FALSE, NoBody),
      Reply(FALSE, 403, TRUE, ErrorBody),
      Reply(FALSE, 500, FALSE, NoBody),
      Raised }

\* /v1/flights: one complete record, and one without its airline.
RemoteFlight ==
    [flight |-> [number |-> <<"EK", 354>>],
     airline |-> [name |-> "Emirates"],
     departure |-> [scheduled |-> <<0, 21, 15, 0>>],
     arrival |-> [scheduled |-> <<1, 4, 40, 0>>],
     flight_status |-> "active"]

PartialFlight ==
    [flight |-> [number |-> <<"SQ", 495>>],
     departure |-> [scheduled |-> <<0, 10, 5, 0>>],
     arrival |-> [scheduled |-> <<0, 17, 30, 0>>],
     flight_status |-> "scheduled"]

FlightReplies ==
    { Reply(FALSE, 200, TRUE, [data |-> <<RemoteFlight>>]),
      Reply(FALSE, 200, TRUE, [data |-> <<RemoteFlight, PartialFlight>>]),
      Reply(FALSE, 200, TRUE, ErrorBody),
      Reply(FALSE, 200, FALSE, NoBody),
      Reply(FALSE, 403, TRUE, ErrorBody),
      Reply(FALSE, 500, FALSE, NoBody),
      Raised }

\* The chat completion: message.content is JSON text or not; the JSON is the
\* object asked for, or one with min above max, or one without the prices.
PriceReplies ==
    { Reply(FALSE, 200, TRUE,
            [min_price |-> 300, max_price |-> 900, currency |-> "USD"]),
      Reply(FALSE, 200, TRUE,
            [min_price |-> 900, max_price |-> 300, currency |-> "USD"]),
      Reply(FALSE, 200, TRUE, [currency |-> "USD"]),
      Reply(FALSE, 200, FALSE, NoBody),
      Raised }

\* ------------------------------------------------------------------------
\* The three methods, from the answer of the remote end to the return value
\* ------------------------------------------------------------------------

\* data.get("data", [])
DataOf(body) == IF "data" \in DOMAIN body THEN body.data ELSE <<>>

\* airport.get("iata_code")
HasIata(airport) == "iata_code" \in DOMAIN airport /\ airport.iata_code # ""

RECURSIVE AirportList(_)
AirportList(raw) ==
    IF raw = <<>> THEN <<>>
    ELSE IF HasIata(Head(raw))
         THEN << [iata |-> Head(raw).iata_code,
                  name |-> Head(raw).airport_name] >> \o AirportList(Tail(raw))
         ELSE AirportList(Tail(raw))

\* airport["airport_name"] raises KeyError for a kept record without it
AirportKeyError(raw) ==
    \E i \in 1 .. Len(raw) :
        HasIata(raw[i]) /\ "airport_name" \notin DOMAIN raw[i]

\* get_city_airports: lines 130-147 raise, so that the except branch runs
AirportsRaise(r) ==
    \/ r.raises
    \/ r.status = HttpOk /\ (~r.parsable \/ AirportKeyError(DataOf(r.body)))

\* get_city_airports, lines 130-151
AirportsOfReply(r, city) ==
    IF AirportsRaise(r) THEN MockAirportsGet(city)
    ELSE IF r.status = HttpOk THEN AirportList(DataOf(r.body))
    ELSE <<>>

\* search_flights: lines 169-180 raise, so that the except branch runs
FlightsRaise(r) == r.raises \/ (r.status = HttpOk /\ ~r.parsable)

\* The except branch of search_flights returning an empty list.
FlightsOfReply_EmptyOnError(r, dep, arr) ==
    IF FlightsRaise(r) THEN <<>>
    ELSE IF r.status = HttpOk THEN DataOf(r.body)
    ELSE <<>>

\* search_flights, lines 169-184
FlightsOfReply(r, dep, arr) ==
    IF FlightsRaise(r) THEN MockRoutesGet(dep, arr)
    ELSE IF r.status = HttpOk THEN DataOf(r.body)
    ELSE <<>>

\* get_flight_price_estimate: lines 198-212 raise (json.loads of text that is
\* no JSON included), so that the except branch runs
PriceRaise(r) == r.raises \/ ~r.parsable

\* get_flight_price_estimate, lines 203-219
PriceOfReply(r, dep, arr) ==
    IF PriceRaise(r) THEN MockPricesGet(dep, arr)
    ELSE r.body

\* ------------------------------------------------------------------------
\* Calls and the cache of st.cache_data
\* ------------------------------------------------------------------------

AirportsCall(city) == [fn |-> "get_city_airports", args |-> <<city>>]
FlightsCall(dep, arr, date) ==
    [fn |-> "search_flights", args |-> <<dep, arr, date>>]
PriceCall(dep, arr) ==
    [fn |-> "get_flight_price_estimate", args |-> <<dep, arr>>]
NoCall == [fn |-> "none", args |-> <<>>]

\* The methods under @st.cache_data (lines 116 and 153); the price estimate
\* (line 186) has no decorator.
Cached(fn) == fn \in {"get_city_airports", "search_flights"}

\* The key of an entry is the method and its arguments; there is one provider,
\* so self does not tell entries apart.
\* The entries of a key that have not outlived their ttl.
Fresh(k) == {e \in cache : e.key = k /\ now < e.expires}

\* A call of a decorated method whose key has a fresh entry is answered from
\* the cache and the body does not run.
Hit(k) == Cached(k.fn) /\ Fresh(k) # {}

CachedValue(k) == (CHOOSE e \in Fresh(k) : TRUE).value

\* The decorator stores what the body returned, whatever it is, for ttl
\* seconds.
Stored(k, v) ==
    IF Cached(k.fn)
    THEN {e \in cache : e.key # k}
            \cup {[key |-> k, value |-> v, expires |-> now + CacheTtl]}
    ELSE cache

\* The fallback answer of a call.
MockOf(k) ==
    CASE k.fn = "get_city_airports" -> MockAirportsGet(k.args[1])
      [] k.fn = "search_flights" -> MockRoutesGet(k.args[1], k.args[2])
      [] k.fn = "get_flight_price_estimate" ->
            MockPricesGet(k.args[1], k.args[2])

\* What the remote end of a call may answer.
Replies(k) ==
    CASE k.fn = "get_city_airports" -> AirportReplies(k.args[1])
      [] k.fn = "search_flights" -> FlightReplies
      [] k.fn = "get_flight_price_estimate" -> PriceReplies
      [] OTHER -> {}

\* What a call returns for an answer of the remote end.
ValueOfReply(k, r) ==
    CASE k.fn = "get_city_airports" -> AirportsOfReply(r, k.args[1])
      [] k.fn = "search_flights" -> FlightsOfReply(r, k.args[1], k.args[2])
      [] k.fn = "get_flight_price_estimate" ->
            PriceOfReply(r, k.args[1], k.args[2])

\* Whether the except branch of a call runs for an answer of the remote end.
RaisesOnReply(k, r) ==
    CASE k.fn = "get_city_airports" -> AirportsRaise(r)
      [] k.fn = "search_flights" -> FlightsRaise(r)
      [] k.fn = "get_flight_price_estimate" -> PriceRaise(r)

\* The quota check one request early.
QuotaExhausted_OneEarly == api_calls >= QuotaCeiling - 1

\* `if st.session_state.api_calls >= 95` (lines 122 and 161)
QuotaExhausted == api_calls >= QuotaCeiling

\* get_flight_price_estimate never reads api_calls (lines 186-219).
ChecksQuota(fn) == fn \in {"get_city_airports", "search_flights"}

\* requests.get is called without timeout= (lines 130-136 and 169-177), so
\* it waits for as long as the server keeps silent; the OpenAI client (line
\* 198) is constructed with its default timeout.
HasTimeout(fn) == fn = "get_flight_price_estimate"

NoPre == [calls |-> 0, mock |-> FALSE, hit |-> FALSE, at |-> 0]

\* ------------------------------------------------------------------------
\* Steps of a call by caller c
\* ------------------------------------------------------------------------

\* The value v is returned to caller c (and stored by the decorator).
Returns(c, k, v) ==
    /\ result' = [result EXCEPT ![c] = v]
    /\ cache' = Stored(k, v)
    /\ pc' = [pc EXCEPT ![c] = "done"]

\* Caller c calls k: the cache lookup, then the body up to its first remote
\* step (lines 119-124, 157-163, 189-195).
Begin(c, k) ==
    /\ call' = [call EXCEPT ![c] = k]
    /\ pre' = [pre EXCEPT ![c] =
                  [calls |-> api_calls, mock |-> use_mock, hit |-> Hit(k),
                   at |-> now]]
    /\ tmp' = [tmp EXCEPT ![c] = 0]
    /\ warned' = [warned EXCEPT ![c] = FALSE]
    /\ resp' = [resp EXCEPT ![c] = NoReply]
    /\ IF Hit(k)
       THEN /\ result' = [result EXCEPT ![c] = CachedValue(k)]
            /\ pc' = [pc EXCEPT ![c] = "done"]
            /\ attempts' = [attempts EXCEPT ![c] = 0]
            /\ UNCHANGED <<cache, use_mock>>
       ELSE IF use_mock
       THEN /\ Returns(c, k, MockOf(k))
            /\ attempts' = [attempts EXCEPT ![c] = 0]
            /\ UNCHANGED use_mock
       ELSE IF ChecksQuota(k.fn) /\ QuotaExhausted
       THEN /\ use_mock' = TRUE
            /\ Returns(c, k, MockOf(k))
            /\ attempts' = [attempts EXCEPT ![c] = 0]
       ELSE /\ pc' = [pc EXCEPT ![c] =
                        IF ChecksQuota(k.fn) THEN "incr" ELSE "await"]
            /\ attempts' = [attempts EXCEPT ![c] =
                              IF ChecksQuota(k.fn) THEN 0 ELSE 1]
            /\ UNCHANGED <<result, cache, use_mock>>
    /\ UNCHANGED <<api_calls, current_date, now, requests>>

\* The read of the counter taking it one too high.
Load_OneAhead(c) ==
    /\ pc[c] = "incr"
    /\ tmp' = [tmp EXCEPT ![c] = api_calls + 1]
    /\ pc' = [pc EXCEPT ![c] = "store"]
    /\ UNCHANGED <<api_calls, use_mock, current_date, cache, now, requests,
                   call, resp, result, warned, pre, attempts, main_vars>>

\* `st.session_state.api_calls += 1` reads the counter ...
Load(c) ==
    /\ pc[c] = "incr"
    /\ tmp' = [tmp EXCEPT ![c] = api_calls]
    /\ pc' = [pc EXCEPT ![c] = "store"]
    /\ UNCHANGED <<api_calls, use_mock, current_date, cache, now, requests,
                   call, resp, result, warned, pre, attempts, main_vars>>

\* The write of the counter one lower instead of one higher.
Store_Decrement(c) ==
    /\ pc[c] = "store"
    /\ api_calls' = tmp[c] - 1
    /\ pc' = [pc EXCEPT ![c] = "await"]
    /\ attempts' = [attempts EXCEPT ![c] = attempts[c] + 1]
    /\ requests' = requests + 1
    /\ UNCHANGED <<use_mock, current_date, cache, now,
                   call, tmp, resp, result, warned, pre, main_vars>>

\* ... and writes it back one higher; sleep(1), and the request is sent.
Store(c) ==
    /\ pc[c] = "store"
    /\ api_calls' = tmp[c] + 1
    /\ pc' = [pc EXCEPT ![c] = "await"]
    /\ attempts' = [attempts EXCEPT ![c] = attempts[c] + 1]
    /\ requests' = requests + 1
    /\ UNCHANGED <<use_mock, current_date, cache, now,
                   call, tmp, resp, result, warned, pre, main_vars>>

\* The remote end answers r: the rest of the try block, or the except branch.
Respond(c, r) ==
    /\ pc[c] = "await"
    /\ r \in Replies(call[c])
    /\ resp' = [resp EXCEPT ![c] = r]
    /\ warned' = [warned EXCEPT ![c] = RaisesOnReply(call[c], r)]
    /\ Returns(c, call[c], ValueOfReply(call[c], r))
    /\ UNCHANGED <<api_calls, use_mock, current_date, now, requests,
                   call, tmp, pre, attempts, main_vars>>

\* The remote end accepts the request and never answers.
Stall(c) ==
    /\ pc[c] = "await"
    /\ pc' = [pc EXCEPT ![c] = "hung"]
    /\ UNCHANGED <<api_calls, use_mock, current_date, cache, now, requests,
                   call, tmp, resp, result, warned, pre, attempts, main_vars>>

\* A call that carries a timeout raises when it expires: the except branch.
Timeout(c) ==
    /\ pc[c] = "hung"
    /\ HasTimeout(call[c].fn)
    /\ resp' = [resp EXCEPT ![c] = Raised]
    /\ warned' = [warned EXCEPT ![c] = TRUE]
    /\ Returns(c, call[c], ValueOfReply(call[c], Raised))
    /\ UNCHANGED <<api_calls, use_mock, current_date, now, requests,
                   call, tmp, pre, attempts, main_vars>>

\* The caller has its value and is free for the next call.
Leave(c) ==
    /\ pc[c] = "done"
    /\ stage = "form"
    /\ pc' = [pc EXCEPT ![c] = "idle"]
    /\ UNCHANGED <<api_calls, use_mock, current_date, cache, now, requests,
                   call, tmp, resp, result, warned, pre, attempts, main_vars>>

\* Time passes.
Tick ==
    /\ now + TickStep <= MaxClock
    /\ now' = now + TickStep
    /\ UNCHANGED <<api_calls, use_mock, current_date, cache, requests,
                   caller_vars, main_vars>>


\* ------------------------------------------------------------------------
\* The provider called directly, one call at a time
\* ------------------------------------------------------------------------

\* departure_date.strftime("%Y-%m-%d") of the form
FlightDate == "2024-06-01"

QueryCities == {"Dubai", "Paris"}
QueryRoutes == {<<"DXB", "SIN">>}
QueryPrices == {<<"Dubai", "Singapore">>, <<"Paris", "Dubai">>}

Queries ==
    {AirportsCall(city) : city \in QueryCities}
        \cup {FlightsCall(r[1], r[2], FlightDate) : r \in QueryRoutes}
        \cup {PriceCall(r[1], r[2]) : r \in QueryPrices}

NoFound == [dep |-> <<>>, arr |-> <<>>, i |-> 0, j |-> 0, flights |-> <<>>]

\* The provider has just been constructed (lines 30-36) with either value of
\* use_mock, in a session whose counter (lines 20-21: set to 0 once, then kept
\* across reruns) stands Headroom requests below the ceiling; the cache is
\* empty and no call is under way.
Init ==
    /\ api_calls = QuotaCeiling - Headroom
    /\ use_mock \in BOOLEAN
    /\ current_date = RefNow
    /\ cache = {}
    /\ now = 0
    /\ pc = [c \in Callers |-> "idle"]
    /\ call = [c \in Callers |-> NoCall]
    /\ tmp = [c \in Callers |-> 0]
    /\ resp = [c \in Callers |-> NoReply]
    /\ result = [c \in Callers |-> <<>>]
    /\ warned = [c \in Callers |-> FALSE]
    /\ pre = [c \in Callers |-> NoPre]
    /\ attempts = [c \in Callers |-> 0]
    /\ requests = QuotaCeiling - Headroom
    /\ stage = "form"
    /\ form = <<>>
    /\ found = NoFound
    /\ estimate = <<>>

\* A direct call of one of the three methods.
Query(c, k) ==
    /\ pc[c] = "idle"
    /\ stage = "form"
    /\ Begin(c, k)
    /\ UNCHANGED main_vars

Next ==
    \/ \E k \in Queries : Query(1, k)
    \/ Load(1)
    \/ Store(1)
    \/ \E r \in Replies(call[1]) : Respond(1, r)
    \/ Stall(1)
    \/ Timeout(1)
    \/ Leave(1)
    \/ Tick

Spec == Init /\ [][Next]_vars


\* ------------------------------------------------------------------------
\* main(): the handler of the search form (lines 256-318), on caller 1
\* ------------------------------------------------------------------------

\* flight["flight"]["number"], flight["airline"]["name"], ... (lines 303-309)
\* raise KeyError for a record without one of them.
FlightKeyError(flight) ==
    ~ /\ "flight" \in DOMAIN flight
      /\ "number" \in DOMAIN flight.flight
      /\ "airline" \in DOMAIN flight
      /\ "name" \in DOMAIN flight.airline
      /\ "departure" \in DOMAIN flight
      /\ "scheduled" \in DOMAIN flight.departure
      /\ "arrival" \in DOMAIN flight
      /\ "scheduled" \in DOMAIN flight.arrival
      /\ "flight_status" \in DOMAIN flight

\* price_estimate['min_price'], ['max_price'], ['currency'] (lines 294-298)
PriceKeyError(price) ==
    ~ ({"min_price", "max_price", "currency"} \subseteq DOMAIN price)

\* Lines 291-316: the page is drawn, or an exception leaves main().
Rendered(price, flights) ==
    IF PriceKeyError(price)
        \/ \E n \in 1 .. Len(flights) : FlightKeyError(flights[n])
    THEN "fault"
    ELSE "shown"

\* main() returns: caller 1 is free again.
Handled ==
    /\ pc' = [pc EXCEPT ![1] = "idle"]
    /\ UNCHANGED <<provider_vars, call, tmp, resp, result, warned, pre,
                   attempts>>

\* The form is submitted (lines 256-264).
Submit(dep, arr) ==
    /\ stage = "form"
    /\ pc[1] = "idle"
    /\ form' = <<dep, arr>>
    /\ IF dep = "" \/ arr = ""
       THEN /\ stage' = "rejected"
            /\ UNCHANGED <<provider_vars, caller_vars, found, estimate>>
       ELSE /\ stage' = "departure"
            /\ Begin(1, AirportsCall(dep))
            /\ UNCHANGED <<found, estimate>>

\* departure_airports is there; get_city_airports(arrival_city) (line 264).
GotDeparture ==
    /\ stage = "departure"
    /\ pc[1] = "done"
    /\ found' = [found EXCEPT !.dep = result[1]]
    /\ stage' = "arrival"
    /\ Begin(1, AirportsCall(form[2]))
    /\ UNCHANGED <<form, estimate>>

\* arrival_airports is there: the error of line 267, or the first
\* search_flights of the loops (lines 273-279).
GotArrival ==
    /\ stage = "arrival"
    /\ pc[1] = "done"
    /\ IF found.dep = <<>> \/ result[1] = <<>>
       THEN /\ found' = [found EXCEPT !.arr = result[1]]
            /\ stage' = "no_airports"
            /\ Handled
       ELSE /\ found' = [found EXCEPT !.arr = result[1], !.i = 1, !.j = 1]
            /\ stage' = "flights"
            /\ Begin(1, FlightsCall(found.dep[1].iata, result[1][1].iata,
                                    FlightDate))
    /\ UNCHANGED <<form, estimate>>

\* flights.extend(results) (line 280), then the next pair of airports, or
\* the price estimate (lines 283-289), or the warning of line 318.
GotFlights ==
    /\ stage = "flights"
    /\ pc[1] = "done"
    /\ LET flights == found.flights \o result[1]
       IN IF found.j < Len(found.arr)
          THEN /\ found' = [found EXCEPT !.flights = flights,
                                         !.j = found.j + 1]
               /\ stage' = "flights"
               /\ Begin(1, FlightsCall(found.dep[found.i].iata,
                                       found.arr[found.j + 1].iata,
                                       FlightDate))
          ELSE IF found.i < Len(found.dep)
          THEN /\ found' = [found EXCEPT !.flights = flights,
                                         !.i = found.i + 1, !.j = 1]
               /\ stage' = "flights"
               /\ Begin(1, FlightsCall(found.dep[found.i + 1].iata,
                                       found.arr[1].iata, FlightDate))
          ELSE IF flights # <<>>
          THEN /\ found' = [found EXCEPT !.flights = flights]
               /\ stage' = "price"
               /\ Begin(1, PriceCall(form[1], form[2]))
          ELSE /\ found' = [found EXCEPT !.flights = flights]
               /\ stage' = "no_flights"
               /\ Handled
    /\ UNCHANGED <<form, estimate>>

\* price_estimate is there: the page is drawn (lines 291-316).
GotPrice ==
    /\ stage = "price"
    /\ pc[1] = "done"
    /\ estimate' = result[1]
    /\ stage' = Rendered(result[1], found.flights)
    /\ Handled
    /\ UNCHANGED <<form, found>>

\* The demo routes of the notice on the page (lines 230-238), each written
\* with a two-way arrow between its two cities.
DemoNotice ==
    {<<"New York", "London">>, <<"London", "Tokyo">>,
     <<"Tokyo", "Dubai">>, <<"Dubai", "Singapore">>}

\* The cities typed into the form.
Forms ==
    {<<"Dubai", "Singapore">>, <<"Singapore", "Dubai">>,
     <<"London", "Tokyo">>, <<"Dubai", "">>}

NextMain ==
    \/ \E f \in Forms : Submit(f[1], f[2])
    \/ GotDeparture
    \/ GotArrival
    \/ GotFlights
    \/ GotPrice
    \/ Load(1)
    \/ Store(1)
    \/ \E r \in Replies(call[1]) : Respond(1, r)
    \/ Stall(1)
    \/ Timeout(1)

SpecMain == Init /\ [][NextMain]_vars


\* ------------------------------------------------------------------------
\* The provider called by several threads at once
\* ------------------------------------------------------------------------

SharedQueries ==
    {AirportsCall("Dubai"), FlightsCall("DXB", "SIN", FlightDate)}

NextConc ==
    \/ \E c \in Callers : \E k \in SharedQueries : Query(c, k)
    \/ \E c \in Callers : Load(c)
    \/ \E c \in Callers : Store(c)
    \/ \E c \in Callers : \E r \in Replies(call[c]) : Respond(c, r)
    \/ \E c \in Callers : Leave(c)

SpecConc == Init /\ [][NextConc]_vars


\* ------------------------------------------------------------------------
\* The provider called with one city in two spellings
\* ------------------------------------------------------------------------

\* The city argument as typed by two users (st.text_input, lines 243-251,
\* hands the text to get_city_airports unchanged).
SpelledQueries == {AirportsCall("Dubai"), AirportsCall("dubai")}

NextSpelled ==
    \/ \E k \in SpelledQueries : Query(1, k)
    \/ Load(1)
    \/ Store(1)
    \/ \E r \in Replies(call[1]) : Respond(1, r)
    \/ Leave(1)
    \/ Tick

SpecSpelled == Init /\ [][NextSpelled]_vars


\* ------------------------------------------------------------------------
\* The provider in a session that stays open over midnight
\* ------------------------------------------------------------------------

\* The clock `now` counts seconds; a calendar day of it.
DaySeconds == 24 * 60 * 60

\* The calendar date of a time of the clock.
DateOf(t) == t \div DaySeconds

\* The days a session stays open.
MaxDays == 1

\* The date changes: st.session_state (lines 20-21) keeps api_calls as it
\* is, the provider keeps use_mock, the entries of the cache are past their
\* ttl.
Midnight ==
    /\ DateOf(now) < MaxDays
    /\ now' = (DateOf(now) + 1) * DaySeconds
    /\ UNCHANGED <<api_calls, use_mock, current_date, cache, requests,
                   caller_vars, main_vars>>

NextDays ==
    \/ \E k \in SharedQueries : Query(1, k)
    \/ Load(1)
    \/ Store(1)
    \/ \E r \in Replies(call[1]) : Respond(1, r)
    \/ Leave(1)
    \/ Midnight

SpecDays == Init /\ [][NextDays]_vars


\* ------------------------------------------------------------------------
\* The provider constructed at any time of the day
\* ------------------------------------------------------------------------

\* Values of datetime.now() (line 62) at the construction of the provider.
Dates ==
    [day : {0, 1}, hour : {0, 7, 8, 14, 18, 23}, minute : {0, 28, 59},
     second : {0, 37}, micro : {5}]

InitDates ==
    /\ api_calls = QuotaCeiling - Headroom
    /\ use_mock \in BOOLEAN
    /\ current_date \in Dates
    /\ cache = {}
    /\ now = 0
    /\ pc = [c \in Callers |-> "idle"]
    /\ call = [c \in Callers |-> NoCall]
    /\ tmp = [c \in Callers |-> 0]
    /\ resp = [c \in Callers |-> NoReply]
    /\ result = [c \in Callers |-> <<>>]
    /\ warned = [c \in Callers |-> FALSE]
    /\ pre = [c \in Callers |-> NoPre]
    /\ attempts = [c \in Callers |-> 0]
    /\ requests = QuotaCeiling - Headroom
    /\ stage = "form"
    /\ form = <<>>
    /\ found = NoFound
    /\ estimate = <<>>

NextDates ==
    \/ Query(1, FlightsCall("DXB", "SIN", FlightDate))
    \/ Load(1)
    \/ Store(1)
    \/ \E r \in Replies(call[1]) : Respond(1, r)
    \/ Leave(1)

SpecDates == InitDates /\ [][NextDates]_vars


\* ------------------------------------------------------------------------
\* Vocabulary of the properties
\* ------------------------------------------------------------------------

Range(seq) == {seq[n] : n \in 1 .. Len(seq)}

\* The records of the fallback tables.
FallbackAirports == UNION {Range(mock_airports[c]) : c \in DOMAIN mock_airports}
FallbackFlights == UNION {Range(mock_routes[r]) : r \in DOMAIN mock_routes}
FallbackPrices == {mock_prices[r] : r \in DOMAIN mock_prices} \cup {DefaultPrice}

\* The value v returned by call k holds a record of the fallback tables.
HoldsFallback(k, v) ==
    CASE k.fn = "get_city_airports" -> Range(v) \cap FallbackAirports # {}
      [] k.fn = "search_flights" -> Range(v) \cap FallbackFlights # {}
      [] k.fn = "get_flight_price_estimate" -> v \in FallbackPrices
      [] OTHER -> FALSE

\* The value v returned by call k holds a record of the remote end.
HoldsRemote(k, v) ==
    CASE k.fn = "get_city_airports" -> Range(v) \ FallbackAirports # {}
      [] k.fn = "search_flights" -> Range(v) \ FallbackFlights # {}
      [] k.fn = "get_flight_price_estimate" -> v \notin FallbackPrices
      [] OTHER -> FALSE

\* The remote end of caller c has answered.
Answered(c) == resp[c] # NoReply

\* The request or the parsing of its answer raised an exception.
Excepted(r) == r.raises \/ (r.status = 200 /\ ~r.parsable)

\* HTTP 401/403, or a 200 whose body is an error object.
RateLimited(r) ==
    /\ ~r.raises
    /\ \/ r.status \in {401, 403}
       \/ r.status = 200 /\ r.parsable /\ "error" \in DOMAIN r.body

\* A 200 whose body parses and is what was asked for.
Succeeded(k, r) ==
    /\ ~r.raises
    /\ r.status = 200
    /\ r.parsable
    /\ IF k.fn = "get_flight_price_estimate"
       THEN TRUE
       ELSE /\ "data" \in DOMAIN r.body
            /\ k.fn = "get_city_airports" =>
                 \A a \in Range(r.body.data) :
                    {"iata_code", "airport_name"} \subseteq DOMAIN a

\* The body of the call of caller c went to the remote end.
Remote(c) == pc[c] \in {"incr", "store", "await", "hung"} \/ Answered(c)

\* ------------------------------------------------------------------------
\* Properties
\* ------------------------------------------------------------------------

\* C1: once api_calls has reached the ceiling, a query that starts (and is
\* not answered from the cache) makes no remote call and returns the
\* fallback answer, whichever of the three methods it is.
C1_ExhaustedQuotaServesFallback ==
    \A c \in Callers :
        (pc[c] # "idle" /\ ~pre[c].hit /\ pre[c].calls >= QuotaCeiling) =>
            /\ ~Remote(c)
            /\ pc[c] = "done" => result[c] = MockOf(call[c])

\* C2: under any interleaving of concurrent callers the counter api_calls
\* never exceeds the ceiling.
C2_CounterWithinCeiling == api_calls <= QuotaCeiling

C4_RepeatServedFromCache ==
    [][\A c \in Callers :
          (/\ pc[c] = "idle"
           /\ pc'[c] # "idle"
           /\ call'[c] = call[c]
           /\ now < pre[c].at + CacheTtl) =>
              (pc'[c] = "done" /\ result'[c] = result[c])]_vars

\* C5: after a rate-limited answer the provider is in forced offline mode and
\* the call has returned the fallback answer.
C5_RateLimitedGoesOffline ==
    \A c \in Callers :
        (pc[c] = "done" /\ ChecksQuota(call[c].fn) /\ RateLimited(resp[c])) =>
            (use_mock /\ result[c] = MockOf(call[c]))

\* C6: after an exception in the request or in the parsing of its answer the
\* call has returned the fallback answer, use_mock is as it was (false) and
\* api_calls is one above its value at entry.
C6_ExceptionFallsBackOnce ==
    \A c \in Callers :
        (pc[c] = "done" /\ ChecksQuota(call[c].fn) /\ Excepted(resp[c])) =>
            /\ result[c] = MockOf(call[c])
            /\ use_mock = pre[c].mock
            /\ ~use_mock
            /\ api_calls = pre[c].calls + 1

\* C6: search_flights raised on a route of the fallback table.
C6_Witness ==
    \E c \in Callers :
        /\ pc[c] = "done"
        /\ call[c].fn = "search_flights"
        /\ resp[c].raises
        /\ result[c] = MockOf(call[c])
        /\ result[c] # <<>>
        /\ ~use_mock
        /\ api_calls = pre[c].calls + 1

\* C7: an answer of the remote end other than a success never comes back as a
\* bare empty list (an empty list without the warning of the except branch).
C7_FailureIsSignalled ==
    \A c \in Callers :
        (/\ pc[c] = "done"
         /\ ChecksQuota(call[c].fn)
         /\ Answered(c)
         /\ ~Succeeded(call[c], resp[c])) =>
            ~(result[c] = <<>> /\ ~warned[c])

\* C8: no search of main() ends in an exception.
C8_NoUnhandledFault == stage # "fault"

\* C9: a call whose remote end never answers is woken by a timeout.
C9_StalledCallTimesOut ==
    \A c \in Callers : pc[c] = "hung" => ENABLED Timeout(c)

\* C10: a returned price estimate has 0 <= min_price <= max_price.
C10_PriceRangeOrdered ==
    \A c \in Callers :
        (pc[c] = "done" /\ call[c].fn = "get_flight_price_estimate") =>
            ({"min_price", "max_price"} \subseteq DOMAIN result[c] =>
                /\ 0 <= result[c].min_price
                /\ result[c].min_price <= result[c].max_price)

\* C11: a search whose batch holds a record without airline.name (next to
\* complete records, and with a complete price estimate) ends with the page
\* drawn, every record of the batch on it.
C11_PartialRecordIsRendered ==
    (/\ stage \in {"shown", "fault"}
     /\ ~PriceKeyError(estimate)
     /\ \E n \in 1 .. Len(found.flights) :
            "airline" \notin DOMAIN found.flights[n]
     /\ \E n \in 1 .. Len(found.flights) :
            ~FlightKeyError(found.flights[n])) =>
        stage = "shown"

Lower(word) ==
    CASE word = "Dubai" -> "dubai"
      [] word = "DXB" -> "dxb"
      [] word = "SIN" -> "sin"
      [] OTHER -> word

\* Two calls of one method whose arguments differ at most in letter case.
SameModuloCase(k1, k2) ==
    /\ k1.fn = k2.fn
    /\ Len(k1.args) = Len(k2.args)
    /\ \A n \in 1 .. Len(k1.args) : Lower(k1.args[n]) = Lower(k2.args[n])

\* C13: a query that starts while the cache holds a fresh entry for the same
\* query in another spelling (letter case) is answered at once with the value
\* of that entry.
C13_CaseInsensitiveKeys ==
    [][\A c \in Callers :
          \A e \in cache :
             (/\ pc[c] = "idle"
              /\ pc'[c] # "idle"
              /\ now < e.expires
              /\ SameModuloCase(e.key, call'[c])) =>
                 (pc'[c] = "done" /\ result'[c] = e.value)]_vars

\* C14: the first query after the date has changed (the last query before it
\* read the counter on an earlier date) finds the counter fresh: if it is not
\* in forced offline mode it goes to the remote end, whatever was counted
\* the day before.
C14_RolloverRestoresBudget ==
    [][(/\ pc[1] = "idle"
        /\ pc'[1] # "idle"
        /\ ChecksQuota(call'[1].fn)
        /\ DateOf(pre[1].at) # DateOf(now)
        /\ ~use_mock) =>
            pc'[1] = "incr"]_vars

\* The provider was constructed with use_mock = True: the flag is set although
\* the counter has never stood at the ceiling.
DemoMode == use_mock /\ api_calls < QuotaCeiling

\* C15: in demo mode a search between the two cities of a route of the
\* notice, in either direction, ends with a non-empty list of flights.
C15_DemoRoutesBothWays ==
    (/\ stage \in {"shown", "fault", "no_flights", "no_airports"}
     /\ DemoMode
     /\ \/ form \in DemoNotice
        \/ <<form[2], form[1]>> \in DemoNotice) =>
        found.flights # <<>>

\* A strftime text <<day, hour, minute, second>> in minutes since day 0.
Minutes(text) == (text[1] * 24 + text[2]) * 60 + text[3]

\* The flight record has the times of the schedule of the fallback table:
\* the morning flights are the 1st, 3rd, ... of a route, the evening flights
\* the 2nd, 4th, ...
OnSchedule(flight, n) ==
    LET dep == flight.departure.scheduled
        arr == flight.arrival.scheduled
    IN /\ dep[1] = current_date.day
       /\ dep[2] = (IF n % 2 = 1 THEN 8 ELSE 18)
       /\ dep[3] = 0
       /\ Minutes(arr) = Minutes(dep) + 8 * 60
       /\ arr[4] = dep[4]
       /\ arr[1] = (IF n % 2 = 1 THEN dep[1] ELSE dep[1] + 1)

\* C16: every flight of the fallback table departs on the date of
\* current_date at 08:00 (morning) or 18:00 (evening) and arrives 8 hours
\* later, the evening flight on the next calendar day; and so does every
\* record of a fallback answer of search_flights.
C16_FallbackSchedule ==
    LET table == mock_routes
    IN /\ \A r \in DOMAIN table :
             \A n \in 1 .. Len(table[r]) : OnSchedule(table[r][n], n)
       /\ \A c \in Callers :
             (/\ pc[c] = "done"
              /\ call[c].fn = "search_flights"
              /\ HoldsFallback(call[c], result[c])) =>
                 \A n \in 1 .. Len(result[c]) : OnSchedule(result[c][n], n)

\* C16: the provider was constructed late in the evening with seconds on the
\* clock, and a search has returned the fallback flights: the second one
\* departs at 18:00 of that day and arrives at 02:00 of the next.
C16_Witness ==
    /\ current_date.hour = 23
    /\ current_date.second = 37
    /\ current_date.day = 1
    /\ pc[1] = "done"
    /\ call[1].fn = "search_flights"
    /\ Len(result[1]) = 8
    /\ result[1][2].departure.scheduled = <<1, 18, 0, 37>>
    /\ result[1][2].arrival.scheduled = <<2, 2, 0, 37>>
    /\ result[1][1].arrival.scheduled = <<1, 16, 0, 37>>

\* No call sends more than one request.
AtMostOneAttempt == \A c \in Callers : attempts[c] <= 1

\* A call whose request did not succeed has returned the fallback answer.
FailedAttemptFallsBack ==
    \A c \in Callers :
        (pc[c] = "done" /\ Answered(c) /\ ~Succeeded(call[c], resp[c])) =>
            result[c] = MockOf(call[c])

\* C17: a call of one of the three methods sends at most one request, and
\* after a request that failed it has returned the fallback answer, with no
\* second request.
C17_OneAttemptThenFallback == AtMostOneAttempt /\ FailedAttemptFallsBack

\* Every record of the value v returned by call k is of the fallback tables.
FromFallback(k, v) ==
    CASE k.fn = "get_city_airports" -> Range(v) \subseteq FallbackAirports
      [] k.fn = "search_flights" -> Range(v) \subseteq FallbackFlights
      [] k.fn = "get_flight_price_estimate" -> v \in FallbackPrices
      [] OTHER -> FALSE

C19_ModeAndCounterMonotonic ==
    [][/\ use_mock => use_mock'
       /\ api_calls' >= api_calls]_vars

\* C19: the counter has risen to the ceiling, the quota check has set
\* use_mock, and a later call has run in offline mode with both as they were.
C19_Witness ==
    /\ api_calls = QuotaCeiling
    /\ api_calls > QuotaCeiling - Headroom
    /\ use_mock
    /\ pc[1] = "done"
    /\ pre[1].mock
    /\ pre[1].calls = QuotaCeiling

\* C20: with the calls made one after another, api_calls is the number of
\* requests sent to /v1/airports and /v1/flights so far; a call has raised it
\* by exactly the one request it has sent, whatever the answer, and not at
\* all if it was answered from the cache, from the fallback tables, or is a
\* price estimate.
C20_CounterCountsRequests ==
    /\ api_calls = requests
    /\ \A c \in Callers :
          pc[c] # "idle" =>
             /\ api_calls = pre[c].calls
                              + (IF ChecksQuota(call[c].fn) THEN attempts[c]
                                 ELSE 0)
             /\ pc[c] \in {"await", "hung"} => attempts[c] = 1
             /\ (pc[c] = "done" /\ Answered(c)) => attempts[c] = 1
             /\ (pc[c] = "done" /\ ~Answered(c)) => api_calls = pre[c].calls
             /\ pre[c].hit => api_calls = pre[c].calls

\* C20: three requests have been counted, the last one for a search whose
\* request raised: it is counted all the same.
C20_Witness ==
    /\ pc[1] = "done"
    /\ call[1].fn = "search_flights"
    /\ resp[1].raises
    /\ attempts[1] = 1
    /\ api_calls = pre[1].calls + 1
    /\ requests = QuotaCeiling
    /\ api_calls = QuotaCeiling

=============================================================================
